---- MODULE Spec2Model ----
(***************************************************************************)
(* Orders & Wallet: the command side (createOrder, capturePayment,         *)
(* refundOrder), the GraphQL view in front of it, the advisory wallet lock *)
(* and the relational store the commands write to.                         *)
(*                                                                         *)
(* Money is counted in units of 0.0001 currency unit: prices and ledger    *)
(* amounts have two decimal places (DecimalField(decimal_places=2)), and   *)
(* the bonus, total * Decimal("0.05"), has four.                           *)
(*                                                                         *)
(* The store is PostgreSQL at its default isolation level, READ COMMITTED: *)
(* every statement of a transaction reads what is committed at that moment *)
(* plus the transaction's own writes, a row written by a transaction is    *)
(* locked until that transaction ends, and all writes of a transaction     *)
(* become visible together at commit or are discarded at rollback.         *)
(***************************************************************************)
EXTENDS Integers, Sequences, FiniteSets, TLC

VARIABLES
    orders,      \* OrderORM + OrderItemORM rows: order id -> [customer, items, status, total]
    wallets,     \* WalletORM rows: set of [id, customer]
    ledger,      \* WalletTransactionORM rows, in insertion order
    eventLog,    \* EventStore rows, in insertion order
    outbox,      \* OutboxEvent rows, in insertion order
    idem,        \* IdempotencyKey rows
    lock,        \* pg_advisory_xact_lock: wallet id -> holder
    pc,          \* position of each handler: a caller of the services or of the view
    req,         \* the request each handler is serving
    ord,         \* the handler's in-memory Order aggregate
    wal,         \* the id of the handler's in-memory Wallet aggregate
    buf,         \* uncommitted writes of the handler's open transaction
    resp,        \* what the handler's request ended with: a result or an exception
    reqId,       \* history: serial number of the request a handler serves
    nreq,        \* history: number of requests received so far
    executed,    \* history: the command of the handler's request was invoked
    capInfo,     \* history: per order, the wallet around its latest capture
    memWallet,   \* a Wallet aggregate used directly: balance and transactions
    memOrder,    \* an Order aggregate used directly: items and status
    outcome,     \* the last call made directly (aggregate, query, drain) and how it ended
    orderViews,  \* OrderSummary rows: order id -> read model of the order
    walletViews, \* WalletView rows: wallet id -> read model of the wallet
    ndeliv,      \* history: number of deliveries of outbox events so far
    worker       \* the process_outbox command started with --loop: how far it is

dbVars == <<orders, wallets, ledger, eventLog, outbox>>
aggVars == <<memWallet, memOrder, outcome>>
readVars == <<orderViews, walletViews, ndeliv, worker>>
svcVars == <<idem, lock, pc, req, ord, wal, buf, resp, reqId, nreq, executed,
             capInfo>>
vars == <<orders, wallets, ledger, eventLog, outbox, idem, lock,
          pc, req, ord, wal, buf, resp, reqId, nreq, executed, capInfo,
          memWallet, memOrder, outcome, orderViews, walletViews, ndeliv, worker>>

(***************************************************************************)
(* Bounds of the model.                                                    *)
(***************************************************************************)
MaxOrders == 2
MaxRequests == 3
MaxIdemRequests == 2

Procs == {"p1", "p2"}
NoProc == "none"

(***************************************************************************)
(* Program constants.                                                      *)
(***************************************************************************)
DecimalPlaces == 2
BonusPercent == 5
Cent == 10 ^ DecimalPlaces
Money(cents) == cents * Cent

Customers == {"c1", "c2"}
UnknownCustomer == "cx"
WalletIds == {"w1", "w2"}
NewWalletId(c) == IF c = "c1" THEN "w1" ELSE "w2"

\* the headers of a request: Idempotency-Key, and X-User-ID, which is absent,
\* a UUID, or a text that is no UUID
NoKey == "none"
Keys == {NoKey, "k1"}
NoUser == "none"
UserId == "u1"
BadUserId == "not-a-uuid"
Users == {NoUser, UserId, BadUserId}

Item(q, p) == [quantity |-> q, price |-> p]
ItemsExample == << Item(2, Money(10000)), Item(1, Money(5000)) >>
ItemsOdd == << Item(1, Money(30)) >>
ItemsSmall == << Item(1, Money(5)) >>
ItemsBad == << Item(0, Money(100)) >>
CreateInputs ==
    ({"c1"} \X {ItemsExample, ItemsOdd, ItemsSmall})
    \cup {<<UnknownCustomer, ItemsOdd>>, <<"c1", ItemsBad>>}
IdemCreateInputs == {"c1"} \X {ItemsExample, ItemsOdd}
InitBalance == Money(100)

(***************************************************************************)
(* Pure functions.                                                         *)
(***************************************************************************)
\* numeric(12,2): a value is rounded to two decimal places when stored
RoundCents(x) == ((x + (Cent \div 2)) \div Cent) * Cent

\* variant: the quantity of an item is not looked at
ValidItemAnyQuantity(it) == it.price >= 0

\* OrderItem.__init__
ValidItem(it) == it.quantity > 0 /\ it.price >= 0

\* variant: zero passes for a positive amount
PositiveAmountOrZero(amount) == amount >= 0

\* the amount check of debit, credit and WalletTransaction.__init__
PositiveAmount(amount) == amount > 0

\* OrderItem.subtotal
Subtotal(it) == it.price * it.quantity

RECURSIVE SumSubtotals(_)
SumSubtotals(items) ==
    IF items = << >> THEN 0
    ELSE Subtotal(Head(items)) + SumSubtotals(Tail(items))

\* Order.total_amount
TotalAmount(items) == SumSubtotals(items)

\* the bonus of capture_payment and refund_order: total * Decimal("0.05")
BonusAmount(total) == (total * BonusPercent) \div 100

RECURSIVE SelectWallet(_, _)
SelectWallet(rows, w) ==
    IF rows = << >> THEN << >>
    ELSE IF Head(rows).wallet = w
         THEN << Head(rows) >> \o SelectWallet(Tail(rows), w)
         ELSE SelectWallet(Tail(rows), w)

\* EventStoreRepository.calculate_wallet_balance
RECURSIVE CalculateWalletBalance(_)
CalculateWalletBalance(rows) ==
    IF rows = << >> THEN 0
    ELSE LET t == Head(rows)
         IN  (IF t.type = "DEBIT" THEN 0 - t.amount
              ELSE IF t.type = "CREDIT" THEN t.amount ELSE 0)
             + CalculateWalletBalance(Tail(rows))

Balance(w) == CalculateWalletBalance(SelectWallet(ledger, w))

\* WalletRepository._to_domain builds a WalletTransaction per row, and
\* WalletTransaction.__init__ raises on an amount <= 0
Loadable(w) == \A i \in 1..Len(ledger) : ledger[i].wallet = w => ledger[i].amount > 0

WalletOfCustomer(c) == { w \in wallets : w.customer = c }

\* a text is the sequence of its characters
\* ("capturePayment2" is << "c", "a", "p", ..., "t", "2" >>)
CreateOrderName ==
    << "c", "r", "e", "a", "t", "e", "O", "r", "d", "e", "r" >>
CapturePaymentName ==
    << "c", "a", "p", "t", "u", "r", "e", "P", "a", "y", "m", "e", "n", "t" >>
RefundOrderName ==
    << "r", "e", "f", "u", "n", "d", "O", "r", "d", "e", "r" >>

\* "word in operation_name": the word occurs in the name as a run of
\* consecutive characters, starting anywhere
Contains(name, word) ==
    \E i \in 0..(Len(name) - Len(word)) :
       SubSeq(name, i + 1, i + Len(word)) = word

\* OrdersWalletGraphQLView._extract_operation: the first of the three names
\* that occurs anywhere in the operation name decides
ExtractOperation(name) ==
    IF Contains(name, CreateOrderName) THEN "CREATE_ORDER"
    ELSE IF Contains(name, CapturePaymentName) THEN "CAPTURE_PAYMENT"
    ELSE IF Contains(name, RefundOrderName) THEN "REFUND_ORDER"
    ELSE "UNKNOWN"

\* EventStoreRepository.save_event: last sequence number of the aggregate + 1,
\* read from what the transaction can see
RECURSIVE LastSequence(_, _, _)
LastSequence(rows, aggType, aggId) ==
    IF rows = << >> THEN 0
    ELSE LET rest == LastSequence(Tail(rows), aggType, aggId)
             e == Head(rows)
         IN  IF e.aggType = aggType /\ e.aggId = aggId /\ e.seq > rest
             THEN e.seq ELSE rest

(***************************************************************************)
(* Rows and responses.                                                     *)
(***************************************************************************)
Txn(w, type, amount, o, kind, r) ==
    [wallet |-> w, type |-> type, amount |-> RoundCents(amount),
     order |-> o, kind |-> kind, req |-> r]

Event(aggType, aggId, etype, seq, o, amount, r) ==
    [aggType |-> aggType, aggId |-> aggId, etype |-> etype, seq |-> seq,
     order |-> o, amount |-> amount, newBalance |-> 0, req |-> r]

OutboxRow(e) ==
    [aggType |-> e.aggType, aggId |-> e.aggId, etype |-> e.etype,
     order |-> e.order, amount |-> e.amount, newBalance |-> e.newBalance,
     req |-> e.req, processed |-> FALSE, retry |-> 0]

NoResp == [kind |-> "", err |-> "", order |-> 0, status |-> "",
           amount |-> 0, bonus |-> 0]
\* the command raised err
ErrorResponse(err) == [NoResp EXCEPT !.kind = "errors", !.err = err]
\* dispatch raised NameError: the name it calls is not defined
NameError(name) == [NoResp EXCEPT !.kind = "NameError", !.err = name]
CaptureResponse(o, total, bonus) ==
    [NoResp EXCEPT !.kind = "capturePayment", !.order = o,
                   !.status = "PAID", !.amount = total, !.bonus = bonus]
RefundResponse(o, total) ==
    [NoResp EXCEPT !.kind = "refundOrder", !.order = o,
                   !.status = "REFUNDED", !.amount = total]

NoOrd == [customer |-> "", items |-> << >>, status |-> ""]
EmptyBuf == [order |-> 0, status |-> "", events |-> << >>, wnew |-> ""]

\* a request names a command and an order; one that comes through the view
\* also carries the two headers
Requests == [op : {"capturePayment", "refundOrder"}, order : 1..MaxOrders,
             key : Keys, user : Users]
\* the calls of the two services
CmdRequests == { r \in Requests : r.key = NoKey /\ r.user = NoUser }
NoReq == [op |-> "", order |-> 0, key |-> NoKey, user |-> NoUser]
NoCapture == [req |-> 0, balanceBefore |-> 0, ledgerLen |-> 0]

\* Wallet(customer_id=...): balance 0.00 and no transactions; persisted counts
\* the transactions whose id is already in the store, tampered records an
\* assignment to _balance from outside the aggregate
NewWallet == [balance |-> 0, txns |-> << >>, persisted |-> 0, tampered |-> FALSE]

\* Order(customer_id=...): DRAFT and no items; saved is the row of the order
\* in the store, 0 while it has none
NewOrder == [items |-> << >>, status |-> "DRAFT", saved |-> 0]

\* no OrderSummary row / no WalletView row
NoOrderView == [exists |-> FALSE, status |-> "", total |-> 0]
NoWalletView == [exists |-> FALSE, balance |-> 0, count |-> 0]

NoCall == [op |-> "", ok |-> TRUE, arg |-> << >>]
Call(op, ok, arg) == [op |-> op, ok |-> ok, arg |-> arg]


(***************************************************************************)
(* Helpers of the transaction model.                                       *)
(***************************************************************************)
\* the service method behind a command
FirstPc(op) == IF op = "capturePayment" THEN "cap_load" ELSE "ref_load"

\* a row written by an open transaction stays locked until it ends
RowLockedByOther(o, p) == \E q \in Procs \ {p} : buf[q].order = o

\* the unique index on WalletORM.customer makes a second insert wait
WalletInsertBlocked(w, p) == \E q \in Procs \ {p} : buf[q].wnew = w

\* WalletDebited / WalletCredited carry new_balance=wallet.balance
WithNewBalance(evs, balance) == [evs EXCEPT ![Len(evs)].newBalance = balance]

\* variant: the sequence number is read from the committed events only
AppendEventFromCommitted(evs, aggType, aggId, etype, o, amount, r) ==
    evs \o << Event(aggType, aggId, etype,
                    LastSequence(eventLog, aggType, aggId) + 1,
                    o, amount, r) >>

\* EventStoreRepository.save_event followed by OutboxRepository.add_event
AppendEvent(evs, aggType, aggId, etype, o, amount, r) ==
    evs \o << Event(aggType, aggId, etype,
                    LastSequence(eventLog \o evs, aggType, aggId) + 1,
                    o, amount, r) >>

\* variant: the first event of a transaction gets no outbox row
OutboxRowsButFirst(evs) == [i \in 1..(Len(evs) - 1) |-> OutboxRow(evs[i + 1])]

\* outbox_repo.add_event after every event_store_repo.save_event
OutboxRows(evs) == [i \in 1..Len(evs) |-> OutboxRow(evs[i])]

MemTxn(type, amount) == [type |-> type, amount |-> amount]

\* variant: a debit is never turned down for lack of funds
InsufficientBalanceNever(balance, amount) == FALSE

\* Wallet.debit: the balance check
InsufficientBalance(balance, amount) == balance < amount

\* refund_order: the bonus is taken back only if the wallet can afford it
CanCompensate(balance, bonus) == balance >= bonus

\* the rows WalletRepository.save adds for a capture
CaptureTxns(w, o, total, bonus, r) ==
    << Txn(w, "DEBIT", total, o, "payment", r),
       Txn(w, "CREDIT", bonus, o, "bonus", r) >>

\* variant: the refund credits the bonus instead of the order total
RefundTxnsOfBonus(w, o, total, bonus, compensate, r) ==
    << Txn(w, "CREDIT", bonus, o, "refund", r) >>
    \o (IF compensate THEN << Txn(w, "DEBIT", bonus, o, "compensation", r) >>
        ELSE << >>)

\* the rows WalletRepository.save adds for a refund
RefundTxns(w, o, total, bonus, compensate, r) ==
    << Txn(w, "CREDIT", total, o, "refund", r) >>
    \o (IF compensate THEN << Txn(w, "DEBIT", bonus, o, "compensation", r) >>
        ELSE << >>)

Abs(x) == IF x < 0 THEN 0 - x ELSE x

\* variant: only the sign of the balance is checked
WalletSaveValidSignOnly(balance, txns) ==
    /\ balance >= 0

\* the two checks of WalletRepository.save
WalletSaveValid(balance, txns) ==
    /\ balance >= 0
    /\ Abs(balance - CalculateWalletBalance(txns)) <= Cent

Release(p) == [w \in WalletIds |-> IF lock[w] = p THEN NoProc ELSE lock[w]]

\* variant: the writes made before the exception stay in the store
AbortKeepingWrites(p, err) ==
    /\ orders' = IF buf[p].order # 0
                 THEN [orders EXCEPT ![buf[p].order].status = buf[p].status]
                 ELSE orders
    /\ eventLog' = eventLog \o buf[p].events
    /\ outbox' = outbox \o OutboxRows(buf[p].events)
    /\ buf' = [buf EXCEPT ![p] = EmptyBuf]
    /\ lock' = Release(p)
    /\ resp' = [resp EXCEPT ![p] = ErrorResponse(err)]
    /\ pc' = [pc EXCEPT ![p] = "done"]
    /\ ord' = [ord EXCEPT ![p] = NoOrd]
    /\ wal' = [wal EXCEPT ![p] = ""]
    /\ UNCHANGED <<wallets, ledger>>

\* an exception leaves capture_payment / refund_order: transaction.atomic
\* rolls everything back
Abort(p, err) ==
    /\ buf' = [buf EXCEPT ![p] = EmptyBuf]
    /\ lock' = Release(p)
    /\ resp' = [resp EXCEPT ![p] = ErrorResponse(err)]
    /\ pc' = [pc EXCEPT ![p] = "done"]
    /\ ord' = [ord EXCEPT ![p] = NoOrd]
    /\ wal' = [wal EXCEPT ![p] = ""]
    /\ UNCHANGED dbVars

\* variant: the save writes the wallet's transactions over the stored ones
CommitRewritingLedger(p, o, status, total, txns, evs, response) ==
    /\ orders' = [orders EXCEPT ![o] = [@ EXCEPT !.status = status,
                                                 !.total = RoundCents(total)]]
    /\ wallets' = IF buf[p].wnew # ""
                  THEN wallets \cup {[id |-> buf[p].wnew, customer |-> ord[p].customer]}
                  ELSE wallets
    /\ ledger' = txns
    /\ eventLog' = eventLog \o evs
    /\ outbox' = outbox \o OutboxRows(evs)
    /\ buf' = [buf EXCEPT ![p] = EmptyBuf]
    /\ lock' = Release(p)
    /\ resp' = [resp EXCEPT ![p] = response]
    /\ pc' = [pc EXCEPT ![p] = "done"]
    /\ ord' = [ord EXCEPT ![p] = NoOrd]
    /\ wal' = [wal EXCEPT ![p] = ""]

\* the outermost atomic block ends normally
Commit(p, o, status, total, txns, evs, response) ==
    /\ orders' = [orders EXCEPT ![o] = [@ EXCEPT !.status = status,
                                                 !.total = RoundCents(total)]]
    /\ wallets' = IF buf[p].wnew # ""
                  THEN wallets \cup {[id |-> buf[p].wnew, customer |-> ord[p].customer]}
                  ELSE wallets
    /\ ledger' = ledger \o txns
    /\ eventLog' = eventLog \o evs
    /\ outbox' = outbox \o OutboxRows(evs)
    /\ buf' = [buf EXCEPT ![p] = EmptyBuf]
    /\ lock' = Release(p)
    /\ resp' = [resp EXCEPT ![p] = response]
    /\ pc' = [pc EXCEPT ![p] = "done"]
    /\ ord' = [ord EXCEPT ![p] = NoOrd]
    /\ wal' = [wal EXCEPT ![p] = ""]

(***************************************************************************)
(* Initial state: the customers exist, c1 has a funded wallet.             *)
(***************************************************************************)
Init ==
    /\ orders = << >>
    /\ wallets = {[id |-> "w1", customer |-> "c1"]}
    /\ ledger = << Txn("w1", "CREDIT", InitBalance, 0, "deposit", 0) >>
    /\ eventLog = << >>
    /\ outbox = << >>
    /\ idem = {}
    /\ lock = [w \in WalletIds |-> NoProc]
    /\ pc = [p \in Procs |-> "idle"]
    /\ req = [p \in Procs |-> NoReq]
    /\ ord = [p \in Procs |-> NoOrd]
    /\ wal = [p \in Procs |-> ""]
    /\ buf = [p \in Procs |-> EmptyBuf]
    /\ resp = [p \in Procs |-> NoResp]
    /\ reqId = [p \in Procs |-> 0]
    /\ nreq = 0
    /\ executed = [p \in Procs |-> FALSE]
    /\ capInfo = [o \in 1..MaxOrders |-> NoCapture]
    /\ memWallet = NewWallet
    /\ memOrder = NewOrder
    /\ outcome = NoCall
    /\ orderViews = [o \in 1..MaxOrders |-> NoOrderView]
    /\ walletViews = [w \in WalletIds |-> NoWalletView]
    /\ ndeliv = 0
    /\ worker = "off"

(***************************************************************************)
(* OrderService.create_order: one transaction, no lock, a new aggregate.   *)
(* It writes only rows of the new order, so it commutes with every step of *)
(* a command; the model creates the orders before the first command.       *)
(***************************************************************************)
\* the call succeeds: the customer exists and every item passes add_item
CreateOrderAccepted(c, items) ==
    /\ c \in Customers
    /\ \A i \in 1..Len(items) : ValidItem(items[i])

\* what the transaction of create_order leaves in the store
CreateOrderWrites(c, items) ==
    IF c \notin Customers
    THEN UNCHANGED dbVars
    ELSE IF \E i \in 1..Len(items) : ~ValidItem(items[i])
    THEN UNCHANGED dbVars
    ELSE LET o == Len(orders) + 1
             stored == [i \in 1..Len(items) |->
                           Item(items[i].quantity, RoundCents(items[i].price))]
             evs == AppendEvent(<< >>, "Order", o, "OrderCreated", o,
                                TotalAmount(items), 0)
         IN  /\ orders' = Append(orders,
                             [customer |-> c, items |-> stored, status |-> "DRAFT",
                              total |-> RoundCents(TotalAmount(items))])
             /\ eventLog' = eventLog \o evs
             /\ outbox' = outbox \o OutboxRows(evs)
             /\ UNCHANGED <<wallets, ledger>>

CreateOrder(c, items) ==
    /\ Len(orders) < MaxOrders
    /\ nreq = 0
    /\ CreateOrderWrites(c, items)
    /\ UNCHANGED <<idem, lock, pc, req, ord, wal, buf, resp, reqId, nreq,
                   executed, capInfo, aggVars, readVars>>

(***************************************************************************)
(* The callers of the two services.  A call takes one of the handlers;     *)
(* the handlers are interchangeable, so a call goes to the first one that  *)
(* is free.                                                                *)
(***************************************************************************)
Rank(p) == IF p = "p1" THEN 1 ELSE 2
Free(p) == pc[p] \in {"idle", "done"}

\* OrderService.capture_payment(order_id) or
\* RefundService.refund_order(order_id) is called
Start(p, r, limit) ==
    /\ Free(p)
    /\ \A q \in Procs : Free(q) => Rank(p) <= Rank(q)
    /\ nreq < limit
    /\ r.order <= Len(orders) + 1
    /\ nreq' = nreq + 1
    /\ reqId' = [reqId EXCEPT ![p] = nreq + 1]
    /\ req' = [req EXCEPT ![p] = r]
    /\ pc' = [pc EXCEPT ![p] = FirstPc(r.op)]
    /\ executed' = [executed EXCEPT ![p] = TRUE]
    /\ resp' = [resp EXCEPT ![p] = NoResp]
    /\ ord' = [ord EXCEPT ![p] = NoOrd]
    /\ wal' = [wal EXCEPT ![p] = ""]
    /\ UNCHANGED <<dbVars, idem, lock, buf, capInfo, aggVars, readVars>>

(***************************************************************************)
(* OrdersWalletGraphQLView.dispatch                                        *)
(* The view reads the three headers and builds the record it logs.  The    *)
(* names mask_uuid and mask_pii_in_dict it calls there are neither defined *)
(* nor imported in the module, so building the record raises NameError:    *)
(* on mask_uuid when X-User-ID is present, else on mask_pii_in_dict.  The  *)
(* exception is raised outside every try block of dispatch and leaves the  *)
(* view: the idempotency lookup, the GraphQL execution and the insert of   *)
(* the idempotency row below it are never reached, whatever the request.   *)
(***************************************************************************)
\* a POST reaches the view on any free handler
Dispatch(p, r, limit) ==
    /\ Free(p)
    /\ nreq < limit
    /\ r.order <= Len(orders) + 1
    /\ nreq' = nreq + 1
    /\ reqId' = [reqId EXCEPT ![p] = nreq + 1]
    /\ req' = [req EXCEPT ![p] = r]
    /\ pc' = [pc EXCEPT ![p] = "done"]
    /\ executed' = [executed EXCEPT ![p] = FALSE]
    /\ resp' = [resp EXCEPT ![p] =
                  NameError(IF r.user # NoUser THEN "mask_uuid"
                            ELSE "mask_pii_in_dict")]
    /\ ord' = [ord EXCEPT ![p] = NoOrd]
    /\ wal' = [wal EXCEPT ![p] = ""]
    /\ UNCHANGED <<dbVars, idem, lock, buf, capInfo, aggVars, readVars>>


(***************************************************************************)
(* OrderService.capture_payment                                            *)
(***************************************************************************)
frame == <<idem, req, reqId, nreq, executed, aggVars, readVars>>

\* variant: the status the call goes on with is PENDING whatever was stored
CapLoadAsPending(p) ==
    /\ pc[p] = "cap_load"
    /\ LET o == req[p].order
       IN  IF o > Len(orders)
           THEN Abort(p, "NotFound")
           ELSE /\ ord' = [ord EXCEPT ![p] = [customer |-> orders[o].customer,
                                             items |-> orders[o].items,
                                             status |-> "PENDING"]]
                /\ pc' = [pc EXCEPT ![p] = "cap_confirm"]
                /\ UNCHANGED <<dbVars, lock, buf, resp, wal>>
    /\ UNCHANGED <<frame, capInfo>>

\* order_repo.get_by_id, before anything is locked
CapLoad(p) ==
    /\ pc[p] = "cap_load"
    /\ LET o == req[p].order
       IN  IF o > Len(orders)
           THEN Abort(p, "NotFound")
           ELSE /\ ord' = [ord EXCEPT ![p] = [customer |-> orders[o].customer,
                                             items |-> orders[o].items,
                                             status |-> orders[o].status]]
                /\ pc' = [pc EXCEPT ![p] = "cap_confirm"]
                /\ UNCHANGED <<dbVars, lock, buf, resp, wal>>
    /\ UNCHANGED <<frame, capInfo>>

\* confirm a DRAFT order, require PENDING, get or create the wallet
CapConfirm(p) ==
    /\ pc[p] = "cap_confirm"
    /\ LET o == req[p].order
           od == ord[p]
           draft == od.status = "DRAFT"
       IN  IF draft /\ od.items = << >>
           THEN Abort(p, "EmptyOrder")
           ELSE IF ~draft /\ od.status # "PENDING"
           THEN Abort(p, "InvalidState")
           ELSE /\ draft => ~RowLockedByOther(o, p)
                /\ LET evs == IF draft
                              THEN AppendEvent(<< >>, "Order", o, "OrderConfirmed",
                                               o, 0, reqId[p])
                              ELSE << >>
                       ws == WalletOfCustomer(od.customer)
                   IN  IF ws # {}
                       THEN LET w == (CHOOSE x \in ws : TRUE).id
                            IN  IF ~Loadable(w)
                                THEN Abort(p, "InvalidAmount")
                                ELSE /\ buf' = [buf EXCEPT ![p] =
                                                  [order |-> IF draft THEN o ELSE 0,
                                                   status |-> IF draft THEN "PENDING" ELSE "",
                                                   events |-> evs, wnew |-> ""]]
                                     /\ ord' = [ord EXCEPT ![p].status = "PENDING"]
                                     /\ wal' = [wal EXCEPT ![p] = w]
                                     /\ pc' = [pc EXCEPT ![p] = "cap_lock"]
                                     /\ UNCHANGED <<dbVars, lock, resp>>
                       ELSE LET w == NewWalletId(od.customer)
                            IN  /\ ~WalletInsertBlocked(w, p)
                                /\ buf' = [buf EXCEPT ![p] =
                                             [order |-> IF draft THEN o ELSE 0,
                                              status |-> IF draft THEN "PENDING" ELSE "",
                                              events |-> AppendEvent(evs, "Wallet", w,
                                                           "WalletCreated", 0, 0, reqId[p]),
                                              wnew |-> w]]
                                /\ ord' = [ord EXCEPT ![p].status = "PENDING"]
                                /\ wal' = [wal EXCEPT ![p] = w]
                                /\ pc' = [pc EXCEPT ![p] = "cap_lock"]
                                /\ UNCHANGED <<dbVars, lock, resp>>
    /\ UNCHANGED <<frame, capInfo>>

\* wallet_lock: pg_advisory_xact_lock waits until the lock is free
\* variant: the lock is taken without waiting for its holder
CapLockUnguarded(p) ==
    /\ pc[p] = "cap_lock"
    /\ lock' = [lock EXCEPT ![wal[p]] = p]
    /\ pc' = [pc EXCEPT ![p] = "cap_crit"]
    /\ UNCHANGED <<dbVars, frame, ord, wal, buf, resp, capInfo>>

CapLock(p) ==
    /\ pc[p] = "cap_lock"
    /\ lock[wal[p]] = NoProc
    /\ lock' = [lock EXCEPT ![wal[p]] = p]
    /\ pc' = [pc EXCEPT ![p] = "cap_crit"]
    /\ UNCHANGED <<dbVars, frame, ord, wal, buf, resp, capInfo>>

\* the body of the with-block, the return and the commit
CapCrit(p) ==
    /\ pc[p] = "cap_crit"
    /\ LET o == req[p].order
           od == ord[p]
           w == wal[p]
           r == reqId[p]
           isNew == buf[p].wnew = w
           rows == IF isNew THEN << >> ELSE SelectWallet(ledger, w)
           balance == CalculateWalletBalance(rows)
           total == TotalAmount(od.items)
           bonus == BonusAmount(total)
           mem == [i \in 1..Len(rows) |-> MemTxn(rows[i].type, rows[i].amount)]
                    \o << MemTxn("DEBIT", total), MemTxn("CREDIT", bonus) >>
       IN  IF ~isNew /\ ~Loadable(w)
           THEN Abort(p, "InvalidAmount") /\ UNCHANGED capInfo
           ELSE IF ~PositiveAmount(total)
           THEN Abort(p, "InvalidAmount") /\ UNCHANGED capInfo
           ELSE IF InsufficientBalance(balance, total)
           THEN Abort(p, "InsufficientBalance") /\ UNCHANGED capInfo
           ELSE IF ~PositiveAmount(bonus)
           THEN Abort(p, "InvalidAmount") /\ UNCHANGED capInfo
           ELSE IF od.status # "PENDING"
           THEN Abort(p, "InvalidState") /\ UNCHANGED capInfo
           ELSE IF ~WalletSaveValid(balance - total + bonus, mem)
           THEN Abort(p, "Invariant") /\ UNCHANGED capInfo
           ELSE /\ ~RowLockedByOther(o, p)
                /\ LET e1 == WithNewBalance(
                                 AppendEvent(buf[p].events, "Wallet", w,
                                             "WalletDebited", o, total, r),
                                 balance - total)
                       e2 == WithNewBalance(
                                 AppendEvent(e1, "Wallet", w, "WalletCredited",
                                             o, bonus, r),
                                 balance - total + bonus)
                       e3 == AppendEvent(e2, "Order", o, "OrderPaid", o, total, r)
                   IN  /\ Commit(p, o, "PAID", total, CaptureTxns(w, o, total, bonus, r), e3,
                                 CaptureResponse(o, total, bonus))
                       /\ capInfo' = [capInfo EXCEPT ![o] =
                                        [req |-> r, balanceBefore |-> balance,
                                         ledgerLen |-> Len(ledger) + 2]]
    /\ UNCHANGED frame

(***************************************************************************)
(* RefundService.refund_order                                              *)
(***************************************************************************)
\* the order, its status and the customer's wallet, before anything is locked
RefLoad(p) ==
    /\ pc[p] = "ref_load"
    /\ LET o == req[p].order
       IN  IF o > Len(orders)
           THEN Abort(p, "NotFound")
           ELSE IF orders[o].status # "PAID"
           THEN Abort(p, "InvalidState")
           ELSE LET ws == WalletOfCustomer(orders[o].customer)
                IN  IF ws = {}
                    THEN Abort(p, "NotFound")
                    ELSE IF ~Loadable((CHOOSE x \in ws : TRUE).id)
                    THEN Abort(p, "InvalidAmount")
                    ELSE /\ ord' = [ord EXCEPT ![p] =
                                      [customer |-> orders[o].customer,
                                       items |-> orders[o].items,
                                       status |-> orders[o].status]]
                         /\ wal' = [wal EXCEPT ![p] = (CHOOSE x \in ws : TRUE).id]
                         /\ pc' = [pc EXCEPT ![p] = "ref_lock"]
                         /\ UNCHANGED <<dbVars, lock, buf, resp>>
    /\ UNCHANGED <<frame, capInfo>>

RefLock(p) ==
    /\ pc[p] = "ref_lock"
    /\ lock[wal[p]] = NoProc
    /\ lock' = [lock EXCEPT ![wal[p]] = p]
    /\ pc' = [pc EXCEPT ![p] = "ref_crit"]
    /\ UNCHANGED <<dbVars, frame, ord, wal, buf, resp, capInfo>>

\* the body of the with-block, the return and the commit
RefCrit(p) ==
    /\ pc[p] = "ref_crit"
    /\ LET o == req[p].order
           od == ord[p]
           w == wal[p]
           r == reqId[p]
           rows == SelectWallet(ledger, w)
           balance == CalculateWalletBalance(rows)
           total == TotalAmount(od.items)
           bonus == BonusAmount(total)
           compensate == CanCompensate(balance + total, bonus)
           mem == [i \in 1..Len(rows) |-> MemTxn(rows[i].type, rows[i].amount)]
                    \o << MemTxn("CREDIT", total) >>
                    \o (IF compensate THEN << MemTxn("DEBIT", bonus) >> ELSE << >>)
           after == IF compensate THEN balance + total - bonus ELSE balance + total
       IN  IF ~Loadable(w)
           THEN Abort(p, "InvalidAmount")
           ELSE IF total <= 0
           THEN Abort(p, "InvalidAmount")
           ELSE IF compensate /\ bonus <= 0
           THEN Abort(p, "InvalidAmount")
           ELSE IF od.status # "PAID"
           THEN Abort(p, "InvalidState")
           ELSE IF ~WalletSaveValid(after, mem)
           THEN Abort(p, "Invariant")
           ELSE /\ ~RowLockedByOther(o, p)
                /\ LET evs == AppendEvent(buf[p].events, "Order", o, "OrderRefunded",
                                          o, total, r)
                   IN  Commit(p, o, "REFUNDED", total,
                              RefundTxns(w, o, total, bonus, compensate, r), evs,
                              RefundResponse(o, total))
    /\ UNCHANGED <<frame, capInfo>>

(***************************************************************************)
(* PostgreSQL's deadlock detector: a transaction that waits for a row held *)
(* by a transaction that waits for its advisory lock is aborted.           *)
(***************************************************************************)
WaitsForRow(p, q) ==
    /\ pc[p] \in {"cap_crit", "ref_crit", "cap_confirm"}
    /\ buf[q].order = req[p].order
    /\ q # p

WaitsForLock(q, p) ==
    /\ pc[q] \in {"cap_lock", "ref_lock"}
    /\ lock[wal[q]] = p

DeadlockAbort(p) ==
    /\ \E q \in Procs \ {p} :
          \/ WaitsForRow(p, q) /\ WaitsForLock(q, p)
          \/ WaitsForRow(q, p) /\ WaitsForLock(p, q)
    /\ Abort(p, "Deadlock")
    /\ UNCHANGED <<frame, capInfo>>

Command(p) ==
    \/ CapLoad(p)
    \/ CapConfirm(p)
    \/ CapLock(p)
    \/ CapCrit(p)
    \/ RefLoad(p)
    \/ RefLock(p)
    \/ RefCrit(p)

\* concurrent calls of the two services
Next ==
    \/ \E in \in CreateInputs : CreateOrder(in[1], in[2])
    \/ \E p \in Procs, r \in CmdRequests : Start(p, r, MaxRequests)
    \/ \E p \in Procs : Command(p)
    \/ \E p \in Procs : DeadlockAbort(p)

Spec == Init /\ [][Next]_vars

\* requests that come through the view, with and without the headers of
\* the idempotency layer
NextIdem ==
    \/ \E in \in IdemCreateInputs : CreateOrder(in[1], in[2])
    \/ \E p \in Procs, r \in Requests : Dispatch(p, r, MaxIdemRequests)

SpecIdem == Init /\ [][NextIdem]_vars

(***************************************************************************)
(* Properties.                                                             *)
(***************************************************************************)
OrderIds == 1..Len(orders)

\* rows a request has written
LedgerRowsOf(r) == { i \in 1..Len(ledger) : ledger[i].req = r }
EventRowsOf(r) == { i \in 1..Len(eventLog) : eventLog[i].req = r }
OutboxRowsOf(r) == { i \in 1..Len(outbox) : outbox[i].req = r }
WroteNothing(r) == LedgerRowsOf(r) = {} /\ EventRowsOf(r) = {} /\ OutboxRowsOf(r) = {}

LedgerRowsOfKind(o, type, kind) ==
    { i \in 1..Len(ledger) :
        ledger[i].order = o /\ ledger[i].type = type /\ ledger[i].kind = kind }

EventsOfType(o, etype, rs) ==
    { i \in 1..Len(eventLog) :
        eventLog[i].order = o /\ eventLog[i].etype = etype /\ eventLog[i].req \in rs }

BalanceOfPrefix(n, w) == CalculateWalletBalance(SelectWallet(SubSeq(ledger, 1, n), w))

\* C1: whatever the interleaving of capturePayment calls on one order, the
\* ledger holds at most one payment DEBIT and at most one bonus CREDIT for
\* that order.
C1_AtMostOnePaymentPerOrder ==
    \A o \in OrderIds :
        /\ Cardinality(LedgerRowsOfKind(o, "DEBIT", "payment")) <= 1
        /\ Cardinality(LedgerRowsOfKind(o, "CREDIT", "bonus")) <= 1

\* C2: the wallet balance is never negative, and when two captures for
\* different orders of one customer are the only commands run against a
\* wallet whose balance covers only one of the two totals, and both found
\* their order, exactly one of them succeeds and the other fails with
\* InsufficientBalance.
C2_OneOfTwoCaptures ==
    /\ \A w \in WalletIds : Balance(w) >= 0
    /\ \A p, q \in Procs :
          ( /\ p # q
            /\ nreq = 2
            /\ pc[p] = "done" /\ pc[q] = "done"
            /\ req[p].op = "capturePayment" /\ req[q].op = "capturePayment"
            /\ req[p].order # req[q].order
            /\ req[p].order \in OrderIds /\ req[q].order \in OrderIds
            /\ resp[p].err # "NotFound" /\ resp[q].err # "NotFound"
            /\ orders[req[p].order].customer = orders[req[q].order].customer
            /\ (ledger[1].amount >= orders[req[p].order].total)
                 # (ledger[1].amount >= orders[req[q].order].total) )
          => \/ /\ resp[p].kind = "capturePayment"
                /\ resp[q] = ErrorResponse("InsufficientBalance")
             \/ /\ resp[q].kind = "capturePayment"
                /\ resp[p] = ErrorResponse("InsufficientBalance")

\* the first request of all asks for the capture of an order that is there
\* and that the wallet, still holding its initial funds, can pay: nothing
\* stands in the way of its success
FirstCanSucceed(p) ==
    /\ reqId[p] = 1
    /\ req[p].op = "capturePayment"
    /\ req[p].order \in OrderIds
    /\ orders[req[p].order].total > 0
    /\ orders[req[p].order].total <= InitBalance

\* the first request of all asks for a command that has to fail: the order
\* is not there, or its total is more than the wallet holds
FirstMustFail(p) ==
    /\ reqId[p] = 1
    /\ req[p].op = "capturePayment"
    /\ \/ req[p].order \notin OrderIds
       \/ orders[req[p].order].total > InitBalance

\* both requests went through the view with an Idempotency-Key and a valid
\* X-User-ID, q after p, with the same key, actor and operation
Repeats(p, q) ==
    /\ p # q
    /\ pc[p] = "done" /\ pc[q] = "done"
    /\ reqId[p] < reqId[q]
    /\ req[p].key # NoKey
    /\ req[p].user = UserId
    /\ req[q].key = req[p].key
    /\ req[q].user = req[p].user
    /\ req[q].op = req[p].op

\* C3: a capturePayment request that repeats the key, actor, operation and
\* payload of an earlier successful one gets the stored response unchanged,
\* its command is not executed, and after both requests the event log holds
\* exactly one WalletDebited and one WalletCredited event for the order.
C3_ReplayReturnsStoredResponse ==
    \A p, q \in Procs :
        ( /\ Repeats(p, q)
          /\ req[q].order = req[p].order
          /\ FirstCanSucceed(p) )
        => /\ resp[q] = resp[p]
           /\ ~executed[q]
           /\ WroteNothing(reqId[q])
           /\ Cardinality(EventsOfType(req[p].order, "WalletDebited",
                                       {reqId[p], reqId[q]})) = 1
           /\ Cardinality(EventsOfType(req[p].order, "WalletCredited",
                                       {reqId[p], reqId[q]})) = 1

\* C4: a request whose key, actor and operation match the record of an
\* earlier successful request but whose payload differs is answered with
\* the conflict (DUPLICATE_REQUEST, 409); its command is not executed and
\* it writes nothing to orders, ledger, event log, outbox or the
\* idempotency store.
C4_ConflictChangesNothing ==
    \A p, q \in Procs :
        ( /\ Repeats(p, q)
          /\ req[q].order # req[p].order
          /\ FirstCanSucceed(p) )
        => /\ resp[q].kind = "DUPLICATE_REQUEST"
           /\ ~executed[q]
           /\ WroteNothing(reqId[q])
           /\ \A x \in idem : x.req # reqId[q]

\* C5: an idempotency row is created only after the command succeeded: a
\* request whose command failed leaves no row, and a later retry with the
\* same key executes the command again.
C5_RetryAfterFailureExecutes ==
    /\ \A x \in idem : x.response.kind \in {"capturePayment", "refundOrder"}
    /\ \A p, q \in Procs :
          ( /\ Repeats(p, q)
            /\ req[q].order = req[p].order
            /\ FirstMustFail(p) )
          => executed[q]

\* the handler's command has just ended in this step
Ends(p) == pc[p] \notin {"idle", "done"} /\ pc'[p] = "done"

\* C7: a capture that fails with InsufficientBalance is all-or-nothing: the
\* step that raises it changes no order, wallet, ledger, event or outbox row
\* (a DRAFT order confirmed on the way is DRAFT again), and nothing in the
\* store was written by the failed request.
C7_InsufficientBalanceRollsBack ==
    [][ \A p \in Procs :
          /\ (Ends(p) /\ resp'[p] = ErrorResponse("InsufficientBalance"))
             => /\ UNCHANGED dbVars
                /\ buf'[p] = EmptyBuf
                /\ req[p].op = "capturePayment"
          /\ resp'[p] = ErrorResponse("InsufficientBalance")
             => WroteNothing(reqId[p])' ]_vars

C7_Witness ==
    \E p \in Procs :
        /\ pc[p] = "done"
        /\ resp[p] = ErrorResponse("InsufficientBalance")
        /\ orders[req[p].order].status = "DRAFT"
        /\ Balance("w1") < orders[req[p].order].total

\* C8: a capture of an order with total T on a wallet with balance B >= T
\* leaves one DEBIT of T and one CREDIT of exactly 5% of T in the ledger, a
\* balance of B - T + 5% of T, and returns amountDebited = T and
\* bonusCredited = 5% of T.
C8_CaptureAmounts ==
    /\ \A o \in OrderIds :
          capInfo[o].req # 0
          => LET n == capInfo[o].ledgerLen
                 T == orders[o].total
                 B == capInfo[o].balanceBefore
             IN  /\ B >= T
                 /\ orders[o].status \in {"PAID", "REFUNDED"}
                 /\ ledger[n - 1].type = "DEBIT" /\ ledger[n - 1].amount = T
                 /\ ledger[n - 1].order = o
                 /\ ledger[n].type = "CREDIT" /\ ledger[n].amount = BonusAmount(T)
                 /\ ledger[n].order = o
                 /\ BalanceOfPrefix(n, ledger[n].wallet) = B - T + BonusAmount(T)
    /\ \A p \in Procs :
          resp[p].kind = "capturePayment"
          => /\ resp[p].amount = orders[resp[p].order].total
             /\ resp[p].bonus = BonusAmount(orders[resp[p].order].total)
             /\ resp[p].status = "PAID"

\* C9: refundOrder succeeds only when the status it finds is PAID: it then
\* credits the order total to the wallet, marks the order REFUNDED, emits
\* OrderRefunded and returns amountRefunded = total; on an order in any
\* other status it fails and changes no order, ledger, event or outbox row.
C9_RefundOnlyPaid ==
    [][ \A p \in Procs :
          (Ends(p) /\ req[p].op = "refundOrder")
          => LET o == req[p].order
             IN  IF resp'[p].kind = "refundOrder"
                 THEN /\ pc[p] = "ref_crit"
                      /\ ord[p].status = "PAID"
                      /\ Len(ledger') > Len(ledger)
                      /\ ledger'[Len(ledger) + 1] =
                            [wallet |-> wal[p], type |-> "CREDIT",
                             amount |-> orders[o].total, order |-> o,
                             kind |-> "refund", req |-> reqId[p]]
                      /\ orders'[o].status = "REFUNDED"
                      /\ eventLog'[Len(eventLog')].etype = "OrderRefunded"
                      /\ eventLog'[Len(eventLog')].order = o
                      /\ outbox'[Len(outbox')].etype = "OrderRefunded"
                      /\ outbox'[Len(outbox')].order = o
                      /\ resp'[p].amount = orders[o].total
                      /\ resp'[p].status = "REFUNDED"
                 ELSE /\ resp'[p].kind = "errors"
                      /\ UNCHANGED dbVars
                      /\ (pc[p] = "ref_load" /\ o \in OrderIds)
                            => (orders[o].status # "PAID"
                                  \/ resp'[p].err \in {"InvalidAmount", "NotFound"}) ]_vars

C9_Witness ==
    \E p, q \in Procs :
        /\ pc[p] = "done" /\ resp[p].kind = "refundOrder"
        /\ orders[req[p].order].status = "REFUNDED"
        /\ pc[q] = "done" /\ req[q].op = "refundOrder"
        /\ req[q].order \in OrderIds
        /\ resp[q] = ErrorResponse("InvalidState")

\* C10: a refundOrder call on a captured order, made while no other command
\* runs and with no ledger row written since the capture of that order,
\* ends with the wallet balance back at its value immediately before the
\* capture.
C10_RefundRestoresBalance ==
    [][ \A p \in Procs :
          ( /\ Ends(p)
            /\ req[p].op = "refundOrder"
            /\ \A q \in Procs \ {p} : Free(q)
            /\ req[p].order \in OrderIds
            /\ orders[req[p].order].status = "PAID"
            /\ capInfo[req[p].order].req # 0
            /\ Len(ledger) = capInfo[req[p].order].ledgerLen )
          => \A w \in WalletOfCustomer(orders[req[p].order].customer) :
                CalculateWalletBalance(SelectWallet(ledger', w.id))
                   = capInfo[req[p].order].balanceBefore ]_vars

\* C11: whatever the interleaving of refundOrder calls on one PAID order, the
\* ledger holds at most one refund CREDIT for that order and the event log
\* at most one OrderRefunded event.
C11_AtMostOneRefundPerOrder ==
    \A o \in OrderIds :
        /\ Cardinality(LedgerRowsOfKind(o, "CREDIT", "refund")) <= 1
        /\ Cardinality({ i \in 1..Len(eventLog) :
                           eventLog[i].order = o
                           /\ eventLog[i].etype = "OrderRefunded" }) <= 1

(***************************************************************************)
(* The Wallet aggregate used directly (domain/wallet.py) and saved with    *)
(* WalletRepository.save.  The wallet is the one of customer c2; it starts *)
(* as Wallet(customer_id=c2).  The wallet of c1 and the commands are left  *)
(* alone by these steps.                                                   *)
(***************************************************************************)
MaxTxns == 3

MemWalletId == "w2"
MemWalletCustomer == "c2"

\* amounts passed to debit and credit: negative, zero, 0.30, 1.00 and 0.015
Amounts == {0 - Money(30), 0, Money(30), Money(100), 150}

\* values assigned to _balance from outside, as a difference to the balance:
\* -0.01 (inside the tolerance), +0.0101 (just outside), -2.00, +100.00
Tamperings == {0 - Cent, Cent + 1, 0 - Money(200), Money(10000)}

\* Wallet.debit: who may go on to change the wallet
DebitAccepted(w, amount) ==
    /\ PositiveAmount(amount)
    /\ ~InsufficientBalance(w.balance, amount)
    /\ PositiveAmount(amount)

\* Wallet.debit after its checks
Debited(w, amount) ==
    [w EXCEPT !.balance = w.balance - amount,
              !.txns = Append(w.txns, MemTxn("DEBIT", amount))]

\* Wallet.credit: who may go on to change the wallet
CreditAccepted(w, amount) ==
    /\ PositiveAmount(amount)
    /\ PositiveAmount(amount)

\* Wallet.credit after its checks
Credited(w, amount) ==
    [w EXCEPT !.balance = w.balance + amount,
              !.txns = Append(w.txns, MemTxn("CREDIT", amount))]

WalletDebit(amount) ==
    /\ IF DebitAccepted(memWallet, amount)
       THEN /\ Len(memWallet.txns) < MaxTxns
            /\ memWallet' = Debited(memWallet, amount)
            /\ outcome' = Call("debit", TRUE, <<amount>>)
       ELSE /\ memWallet' = memWallet
            /\ outcome' = Call("debit", FALSE, <<amount>>)
    /\ UNCHANGED <<dbVars, svcVars, readVars, memOrder>>

WalletCredit(amount) ==
    /\ IF CreditAccepted(memWallet, amount)
       THEN /\ Len(memWallet.txns) < MaxTxns
            /\ memWallet' = Credited(memWallet, amount)
            /\ outcome' = Call("credit", TRUE, <<amount>>)
       ELSE /\ memWallet' = memWallet
            /\ outcome' = Call("credit", FALSE, <<amount>>)
    /\ UNCHANGED <<dbVars, svcVars, readVars, memOrder>>

\* wallet._balance = x, as the invariant tests do before a save
TamperBalance(d) ==
    /\ ~memWallet.tampered
    /\ memWallet' = [memWallet EXCEPT !.balance = memWallet.balance + d,
                                      !.tampered = TRUE]
    /\ outcome' = Call("set_balance", TRUE, <<d>>)
    /\ UNCHANGED <<dbVars, svcVars, readVars, memOrder>>

\* the transactions of the wallet whose id is not in the store yet
NewTxnRows(w) ==
    [i \in 1..(Len(w.txns) - w.persisted) |->
        Txn(MemWalletId, w.txns[w.persisted + i].type,
            w.txns[w.persisted + i].amount, 0, "direct", 0)]

\* WalletRepository.save: both checks, then the wallet row and the new
\* transaction rows, in one transaction
WalletSave ==
    /\ IF WalletSaveValid(memWallet.balance, memWallet.txns)
       THEN /\ wallets' = wallets \cup
                    {[id |-> MemWalletId, customer |-> MemWalletCustomer]}
            /\ ledger' = ledger \o NewTxnRows(memWallet)
            /\ memWallet' = [memWallet EXCEPT !.persisted = Len(memWallet.txns)]
            /\ outcome' = Call("save", TRUE, << >>)
       ELSE /\ UNCHANGED <<wallets, ledger, memWallet>>
            /\ outcome' = Call("save", FALSE, << >>)
    /\ UNCHANGED <<orders, eventLog, outbox, svcVars, readVars, memOrder>>

NextWallet ==
    \/ \E a \in Amounts : WalletDebit(a)
    \/ \E a \in Amounts : WalletCredit(a)
    \/ \E d \in Tamperings : TamperBalance(d)
    \/ WalletSave

SpecWallet == Init /\ [][NextWallet]_vars

\* C12: after any sequence of credit and debit attempts, accepted or
\* rejected, the balance of a wallet is the sum of its CREDIT transactions
\* minus the sum of its DEBIT transactions, and it is not negative.
C12_BalanceIsSumOfTransactions ==
    ~memWallet.tampered =>
        /\ memWallet.balance = CalculateWalletBalance(memWallet.txns)
        /\ memWallet.balance >= 0

\* a credit and a debit were accepted and the last debit was turned down
C12_Witness ==
    /\ ~memWallet.tampered
    /\ \E i, j \in 1..Len(memWallet.txns) :
          /\ memWallet.txns[i].type = "CREDIT"
          /\ memWallet.txns[j].type = "DEBIT"
    /\ outcome.op = "debit"
    /\ ~outcome.ok
    /\ outcome.arg[1] > memWallet.balance

\* C13: debit with an amount <= 0 or above the balance fails, credit with an
\* amount <= 0 fails, and a failed call leaves balance and transactions as
\* they were.
C13_RejectedCallChangesNothing ==
    [][ /\ ( /\ outcome'.op = "debit"
             /\ outcome'.arg[1] <= 0 \/ outcome'.arg[1] > memWallet.balance )
           => ~outcome'.ok
        /\ ( /\ outcome'.op = "credit"
             /\ outcome'.arg[1] <= 0 )
           => ~outcome'.ok
        /\ ( outcome'.op \in {"debit", "credit"} /\ ~outcome'.ok )
           => memWallet' = memWallet ]_vars

\* a debit above the balance was turned down on a wallet with transactions
C13_Witness ==
    /\ outcome.op = "debit"
    /\ ~outcome.ok
    /\ outcome.arg[1] > memWallet.balance
    /\ outcome.arg[1] > 0
    /\ Len(memWallet.txns) > 0
    /\ memWallet.balance > 0

\* C14: WalletRepository.save rejects a wallet whose balance is negative or
\* is more than 0.01 away from the balance replayed from its transactions,
\* and a rejected save writes no wallet row and no transaction row.
C14_InvalidWalletIsNotSaved ==
    [][ /\ ( /\ outcome'.op = "save"
             /\ \/ memWallet.balance < 0
                \/ Abs(memWallet.balance
                       - CalculateWalletBalance(memWallet.txns)) > Cent )
           => ~outcome'.ok
        /\ ( outcome'.op = "save" /\ ~outcome'.ok )
           => UNCHANGED <<wallets, ledger>> ]_vars

\* a wallet with unsaved transactions and a balance 0.0101 too high was
\* turned down
C14_Witness ==
    /\ outcome.op = "save"
    /\ ~outcome.ok
    /\ memWallet.balance >= 0
    /\ memWallet.balance - CalculateWalletBalance(memWallet.txns) = Cent + 1
    /\ Len(memWallet.txns) > memWallet.persisted

(***************************************************************************)
(* The Order aggregate used directly (domain/order.py) and saved with      *)
(* OrderRepository.save.  The order starts as Order(customer_id=c2).       *)
(***************************************************************************)
MaxItems == 2

MemOrderCustomer == "c2"

\* arguments of add_item: quantities 0, 1, 2 and prices -0.30, 0, 0.30, 0.014
Quantities == {0, 1, 2}
Prices == {0 - Money(30), 0, Money(30), 140}

\* variant: add_item does not look at the status
CanAddItemAnyStatus(o, it) == ValidItem(it)

\* Order.add_item: DRAFT, then the checks of OrderItem.__init__
CanAddItem(o, it) == o.status = "DRAFT" /\ ValidItem(it)

\* Order.confirm
CanConfirm(o) == o.status = "DRAFT" /\ o.items # << >>

\* variant: a DRAFT order can be marked paid as well
CanMarkPaidFromDraft(o) == o.status \in {"DRAFT", "PENDING"}

\* Order.mark_paid
CanMarkPaid(o) == o.status = "PENDING"

\* Order.mark_refunded
CanMarkRefunded(o) == o.status = "PAID"

\* Order.cancel
CanCancel(o) == o.status \notin {"PAID", "REFUNDED"}

\* a method that checks, then sets the status
Transition(op, allowed, status) ==
    /\ IF allowed
       THEN /\ memOrder' = [memOrder EXCEPT !.status = status]
            /\ outcome' = Call(op, TRUE, << >>)
       ELSE /\ memOrder' = memOrder
            /\ outcome' = Call(op, FALSE, << >>)
    /\ UNCHANGED <<dbVars, svcVars, readVars, memWallet>>

AddItem(q, price) ==
    /\ IF CanAddItem(memOrder, Item(q, price))
       THEN /\ Len(memOrder.items) < MaxItems
            /\ memOrder' = [memOrder EXCEPT
                               !.items = Append(memOrder.items, Item(q, price))]
            /\ outcome' = Call("add_item", TRUE, <<q, price>>)
       ELSE /\ memOrder' = memOrder
            /\ outcome' = Call("add_item", FALSE, <<q, price>>)
    /\ UNCHANGED <<dbVars, svcVars, readVars, memWallet>>

Confirm == Transition("confirm", CanConfirm(memOrder), "PENDING")

MarkPaid == Transition("mark_paid", CanMarkPaid(memOrder), "PAID")

MarkRefunded == Transition("mark_refunded", CanMarkRefunded(memOrder), "REFUNDED")

Cancel == Transition("cancel", CanCancel(memOrder), "CANCELLED")

\* the row and the item rows OrderRepository.save leaves in the store: the
\* total and each price go into columns with two decimal places
OrderRow(o) ==
    [customer |-> MemOrderCustomer,
     items |-> [i \in 1..Len(o.items) |->
                   Item(o.items[i].quantity, RoundCents(o.items[i].price))],
     status |-> o.status,
     total |-> RoundCents(TotalAmount(o.items))]

\* OrderRepository.save: update_or_create of the order row, the item rows
\* deleted and created again
SaveOrder ==
    /\ IF memOrder.saved = 0
       THEN /\ orders' = Append(orders, OrderRow(memOrder))
            /\ memOrder' = [memOrder EXCEPT !.saved = Len(orders) + 1]
       ELSE /\ orders' = [orders EXCEPT ![memOrder.saved] = OrderRow(memOrder)]
            /\ memOrder' = memOrder
    /\ outcome' = Call("save_order", TRUE, << >>)
    /\ UNCHANGED <<wallets, ledger, eventLog, outbox, svcVars, readVars, memWallet>>

NextOrder ==
    \/ \E q \in Quantities, price \in Prices : AddItem(q, price)
    \/ Confirm
    \/ MarkPaid
    \/ MarkRefunded
    \/ Cancel
    \/ SaveOrder

SpecOrder == Init /\ [][NextOrder]_vars

\* C15: confirm succeeds only from DRAFT with items and yields PENDING,
\* mark_paid only from PENDING and yields PAID, mark_refunded only from PAID
\* and yields REFUNDED; a rejected call leaves the status as it was, and a
\* CANCELLED or REFUNDED status never changes again.
C15_StatusTransitions ==
    [][ /\ ( outcome'.op = "confirm" /\ outcome'.ok )
           => /\ memOrder.status = "DRAFT"
              /\ memOrder.items # << >>
              /\ memOrder'.status = "PENDING"
        /\ ( outcome'.op = "mark_paid" /\ outcome'.ok )
           => memOrder.status = "PENDING" /\ memOrder'.status = "PAID"
        /\ ( outcome'.op = "mark_refunded" /\ outcome'.ok )
           => memOrder.status = "PAID" /\ memOrder'.status = "REFUNDED"
        /\ ( outcome'.op \in {"confirm", "mark_paid", "mark_refunded"}
             /\ ~outcome'.ok )
           => memOrder'.status = memOrder.status
        /\ memOrder.status \in {"CANCELLED", "REFUNDED"}
           => memOrder'.status = memOrder.status ]_vars

\* an order went DRAFT, PENDING, PAID, REFUNDED and a later mark_paid was
\* turned down
C15_Witness ==
    /\ memOrder.status = "REFUNDED"
    /\ memOrder.items # << >>
    /\ outcome.op = "mark_paid"
    /\ ~outcome.ok

\* C16: cancel yields CANCELLED from DRAFT and from PENDING and is rejected,
\* leaving the status as it was, from every other status.
C16_CancelOnlyFromDraftOrPending ==
    [][ outcome'.op = "cancel"
        => IF memOrder.status \in {"DRAFT", "PENDING"}
           THEN outcome'.ok /\ memOrder'.status = "CANCELLED"
           ELSE ~outcome'.ok /\ memOrder'.status = memOrder.status ]_vars

\* C17: add_item succeeds only on a DRAFT order with quantity > 0 and
\* price >= 0; a rejected add_item leaves the items as they were, and the
\* items never change once the status is not DRAFT.
C17_ItemsFrozenAfterDraft ==
    [][ /\ ( outcome'.op = "add_item" /\ outcome'.ok )
           => /\ memOrder.status = "DRAFT"
              /\ outcome'.arg[1] > 0
              /\ outcome'.arg[2] >= 0
        /\ ( outcome'.op = "add_item" /\ ~outcome'.ok )
           => memOrder'.items = memOrder.items
        /\ memOrder.status # "DRAFT"
           => memOrder'.items = memOrder.items ]_vars

\* a valid item was turned down on a confirmed order that has an item
C17_Witness ==
    /\ memOrder.status = "PENDING"
    /\ Len(memOrder.items) = 1
    /\ outcome.op = "add_item"
    /\ ~outcome.ok
    /\ outcome.arg[1] > 0
    /\ outcome.arg[2] >= 0

\* C18: the total of every order is the sum of quantity times price over its
\* items, in memory and in the store, where the stored total is compared
\* with the stored items.
C18_TotalIsSumOfItems ==
    /\ TotalAmount(memOrder.items) = SumSubtotals(memOrder.items)
    /\ \A o \in OrderIds : orders[o].total = TotalAmount(orders[o].items)

\* the event an outbox row carries and the event of an event-log entry
SameEvent(e, row) ==
    /\ row.aggType = e.aggType
    /\ row.aggId = e.aggId
    /\ row.etype = e.etype
    /\ row.order = e.order
    /\ row.amount = e.amount
    /\ row.newBalance = e.newBalance
    /\ row.req = e.req

\* C19: in every committed state the event log and the outbox hold the same
\* events, one outbox row for each event-log entry and one event-log entry
\* for each outbox row.
C19_EventLogMatchesOutbox ==
    /\ Len(outbox) = Len(eventLog)
    /\ \A i \in 1..Len(eventLog) : SameEvent(eventLog[i], outbox[i])

\* createOrder, a capture and a refund have committed their events, and a
\* command was rolled back
C19_Witness ==
    /\ \E i, j, k \in 1..Len(eventLog) :
          /\ eventLog[i].etype = "OrderCreated"
          /\ eventLog[j].etype = "WalletDebited"
          /\ eventLog[k].etype = "OrderRefunded"
    /\ Len(outbox) = Len(eventLog)
    /\ \E p \in Procs : resp[p].kind = "errors"

\* the WalletDebited / WalletCredited events that correspond to a ledger row
WalletEventsOf(t) ==
    { i \in 1..Len(eventLog) :
        /\ eventLog[i].aggType = "Wallet"
        /\ eventLog[i].aggId = t.wallet
        /\ eventLog[i].etype = (IF t.type = "DEBIT" THEN "WalletDebited"
                                ELSE "WalletCredited")
        /\ eventLog[i].order = t.order
        /\ eventLog[i].req = t.req }

\* C20: every wallet transaction written by a command (payment debit, bonus
\* credit, refund credit, compensation debit) has exactly one WalletDebited
\* or WalletCredited event in the event log.
C20_EveryTransactionHasItsEvent ==
    \A i \in 1..Len(ledger) :
        ledger[i].req # 0 => Cardinality(WalletEventsOf(ledger[i])) = 1

\* the events of the aggregate of the i-th event, up to and including it
EventsOfAggregateUpTo(i) ==
    { j \in 1..i : /\ eventLog[j].aggType = eventLog[i].aggType
                   /\ eventLog[j].aggId = eventLog[i].aggId }

\* C21: for every aggregate the sequence numbers of its events in the event
\* log are exactly 1..n, without gap or duplicate, whatever the interleaving
\* of the commands.
C21_SequenceNumbersGapless ==
    \A i \in 1..Len(eventLog) :
        eventLog[i].seq = Cardinality(EventsOfAggregateUpTo(i))

\* an order aggregate with four events and a wallet aggregate with four
\* events, written by several commands
C21_Witness ==
    \E i, j \in 1..Len(eventLog) :
        /\ eventLog[i].aggType = "Order"
        /\ eventLog[i].seq >= 4
        /\ eventLog[j].aggType = "Wallet"
        /\ eventLog[j].seq >= 4

\* a transaction is inside the section guarded by the lock of wallet w
InCritical(p, w) == pc[p] \in {"cap_crit", "ref_crit"} /\ wal[p] = w

\* C22: at most one command transaction is inside the locked section of a
\* wallet, and the lock is held by nobody else: a transaction that has
\* committed or rolled back no longer holds it, so a command that waits for
\* the lock waits for a transaction that is still inside the section.
C22_WalletLockExclusive ==
    \A w \in WalletIds :
        /\ Cardinality({ p \in Procs : InCritical(p, w) }) <= 1
        /\ \A p \in Procs : lock[w] = p => InCritical(p, w)
        /\ \A p \in Procs : InCritical(p, w) => lock[w] = p

\* a command has failed and holds nothing while another one is inside the
\* section it was waiting for
C22_Witness ==
    \E p, q \in Procs :
        /\ p # q
        /\ pc[p] = "done"
        /\ resp[p].kind = "errors"
        /\ resp[p].err \in {"InsufficientBalance", "InvalidState", "Deadlock"}
        /\ InCritical(q, "w1")
        /\ lock["w1"] = q

(***************************************************************************)
(* The projector (infra/projector.py) and the delivery fields of the       *)
(* outbox (infra/outbox.py).  A drain cycle is one transaction: it is one  *)
(* step.  The commands that fill the outbox come from one request handler, *)
(* one after the other.  A cycle reads committed outbox rows only and no   *)
(* command reads what a cycle writes, so a cycle that overlaps a command   *)
(* has the effect of one before or after its commit: cycles are taken      *)
(* between the commands.  The handlers treat every order on its own, and  *)
(* one order with its capture and its refund yields every event type the   *)
(* commands emit: the commands here work on one order.                     *)
(***************************************************************************)
MaxDeliveries == 3
MaxProjRequests == 2

\* the limit argument of process_outbox_events: one event, or the default
Limits == {1, 100}

\* how a handler fails: it raises before any statement fails in the
\* database, or a statement of it fails in the database
FailureKinds == {"raise", "dberror"}

ProjCreateInputs == {"c1"} \X {ItemsOdd}

Min(a, b) == IF a < b THEN a ELSE b
Range(seq) == { seq[i] : i \in 1..Len(seq) }

RECURSIVE UnprocessedFrom(_, _)
UnprocessedFrom(ob, i) ==
    IF i > Len(ob) THEN << >>
    ELSE (IF ob[i].processed THEN << >> ELSE << i >>) \o UnprocessedFrom(ob, i + 1)

\* OutboxRepository.get_unprocessed_events: oldest first, at most limit
GetUnprocessedEvents(ob, limit) ==
    LET all == UnprocessedFrom(ob, 1)
    IN  SubSeq(all, 1, Min(limit, Len(all)))

\* OutboxRepository.mark_processed
MarkProcessed(ob, i) == [ob EXCEPT ![i].processed = TRUE]

\* variant: the except branch also marks the event processed
IncrementRetryMarking(ob, i) ==
    [ob EXCEPT ![i].retry = @ + 1, ![i].processed = TRUE]

\* OutboxRepository.increment_retry: retry_count = F("retry_count") + 1
IncrementRetry(ob, i) == [ob EXCEPT ![i].retry = @ + 1]

\* _handle_order_created: update_or_create with status DRAFT
HandleOrderCreated(ov, row) ==
    [ov EXCEPT ![row.aggId] = [exists |-> TRUE, status |-> "DRAFT",
                               total |-> RoundCents(row.amount)]]

\* _handle_order_confirmed / _paid / _refunded / _cancelled:
\* filter(id=order_id).update(status=...)
HandleOrderStatus(ov, row, status) ==
    IF ov[row.aggId].exists THEN [ov EXCEPT ![row.aggId].status = status] ELSE ov

\* _handle_wallet_created: update_or_create with balance 0.00 and count 0
HandleWalletCreated(wv, row) ==
    [wv EXCEPT ![row.aggId] = [exists |-> TRUE, balance |-> 0, count |-> 0]]

\* _handle_wallet_debited and _handle_wallet_credited: the row is created
\* when it is missing and the wallet exists, then balance = new_balance and
\* transactions_count += 1
HandleWalletChanged(wv, row, ws) ==
    IF ~wv[row.aggId].exists /\ row.aggId \notin { w.id : w \in ws }
    THEN wv
    ELSE [wv EXCEPT ![row.aggId] = [exists |-> TRUE,
                                    balance |-> RoundCents(row.newBalance),
                                    count |-> @.count + 1]]

\* Projector._process_event: dispatch on the event type
ProcessEvent(st, row, ws) ==
    IF row.etype = "OrderCreated"
    THEN [st EXCEPT !.ov = HandleOrderCreated(st.ov, row)]
    ELSE IF row.etype = "OrderConfirmed"
    THEN [st EXCEPT !.ov = HandleOrderStatus(st.ov, row, "PENDING")]
    ELSE IF row.etype = "OrderPaid"
    THEN [st EXCEPT !.ov = HandleOrderStatus(st.ov, row, "PAID")]
    ELSE IF row.etype = "OrderRefunded"
    THEN [st EXCEPT !.ov = HandleOrderStatus(st.ov, row, "REFUNDED")]
    ELSE IF row.etype = "OrderCancelled"
    THEN [st EXCEPT !.ov = HandleOrderStatus(st.ov, row, "CANCELLED")]
    ELSE IF row.etype = "WalletCreated"
    THEN [st EXCEPT !.wv = HandleWalletCreated(st.wv, row)]
    ELSE IF row.etype \in {"WalletDebited", "WalletCredited"}
    THEN [st EXCEPT !.wv = HandleWalletChanged(st.wv, row, ws)]
    ELSE st

\* the loop of process_outbox_events over the fetched events; the handler of
\* event f raises and the except branch runs
RECURSIVE DrainLoop(_, _, _, _)
DrainLoop(idxs, st, f, ws) ==
    IF idxs = << >> THEN st
    ELSE LET i == Head(idxs)
         IN  IF i = f
             THEN DrainLoop(Tail(idxs),
                            [st EXCEPT !.ob = IncrementRetry(st.ob, i)], f, ws)
             ELSE DrainLoop(Tail(idxs),
                            [ProcessEvent(st, st.ob[i], ws) EXCEPT
                                !.ob = MarkProcessed(st.ob, i),
                                !.n = st.n + 1],
                            f, ws)

\* variant: the cycle also writes the status of the read model into the order
DrainWritesOrders(st) ==
    /\ orderViews' = st.ov
    /\ walletViews' = st.wv
    /\ outbox' = st.ob
    /\ orders' = [o \in 1..Len(orders) |->
                    IF st.ov[o].exists
                    THEN [orders[o] EXCEPT !.status = st.ov[o].status]
                    ELSE orders[o]]
    /\ UNCHANGED <<wallets, ledger, eventLog>>

\* what a drain cycle commits: OrderSummary, WalletView and OutboxEvent rows
DrainWrites(st) ==
    /\ orderViews' = st.ov
    /\ walletViews' = st.wv
    /\ outbox' = st.ob
    /\ UNCHANGED <<orders, wallets, ledger, eventLog>>

\* a failure after which the transaction of the cycle accepts no further
\* query: a statement failed in the database outside a savepoint.  The
\* handlers of OrderCreated and WalletCreated write through
\* update_or_create, which runs in a savepoint of its own; the others use
\* QuerySet.update, create and Model.save directly.
BreaksTransaction(row, kind) ==
    /\ kind = "dberror"
    /\ row.etype \notin {"OrderCreated", "WalletCreated"}

\* Projector.process_outbox_events(limit), in which the handler of event f
\* fails (f = 0: none does).  After a failure that breaks the transaction
\* increment_retry raises in the except branch, the exception leaves
\* process_outbox_events and the cycle is rolled back.
DrainEffect(limit, f, kind) ==
    LET fetched == GetUnprocessedEvents(outbox, limit)
        st == DrainLoop(fetched,
                        [ov |-> orderViews, wv |-> walletViews,
                         ob |-> outbox, n |-> 0],
                        f, wallets)
    IN  /\ IF f = 0 THEN kind = "raise" ELSE f \in Range(fetched)
        /\ IF f # 0 /\ BreaksTransaction(outbox[f], kind)
           THEN /\ UNCHANGED <<dbVars, orderViews, walletViews>>
                /\ outcome' = Call("drain", FALSE, <<limit, f, kind, 0>>)
           ELSE /\ DrainWrites(st)
                /\ outcome' = Call("drain", TRUE, <<limit, f, kind, st.n>>)

\* process_outbox without --loop, or a direct call of the projector: one
\* cycle between two commands, counted
Drain(limit, f, kind) ==
    /\ ndeliv < MaxDeliveries
    /\ \A p \in Procs : Free(p)
    /\ DrainEffect(limit, f, kind)
    /\ ndeliv' = ndeliv + 1
    /\ UNCHANGED <<svcVars, memWallet, memOrder, worker>>

\* an event that was already applied is delivered again: _process_event is
\* called once more for a processed outbox row
Redeliver(i) ==
    /\ ndeliv < MaxDeliveries
    /\ \A p \in Procs : Free(p)
    /\ i \in 1..Len(outbox)
    /\ outbox[i].processed
    /\ LET st == ProcessEvent([ov |-> orderViews, wv |-> walletViews,
                               ob |-> outbox, n |-> 0],
                              outbox[i], wallets)
       IN  /\ orderViews' = st.ov
           /\ walletViews' = st.wv
    /\ outcome' = Call("redeliver", TRUE, <<i>>)
    /\ ndeliv' = ndeliv + 1
    /\ UNCHANGED <<dbVars, svcVars, memWallet, memOrder, worker>>

NextProjector ==
    \/ \E in \in ProjCreateInputs :
          orders = << >> /\ CreateOrder(in[1], in[2])
    \/ \E r \in CmdRequests : Start("p1", r, MaxProjRequests)
    \/ Command("p1")
    \/ \E limit \in Limits, f \in 0..Len(outbox), kind \in FailureKinds :
          Drain(limit, f, kind)
    \/ \E i \in 1..Len(outbox) : Redeliver(i)

SpecProjector == Init /\ [][NextProjector]_vars

\* the events a drain cycle fetches that are not the failing one
OthersFetched(limit, f) == Range(GetUnprocessedEvents(outbox, limit)) \ {f}

\* C23: in a drain cycle in which the handler of one event fails, that event
\* gets its retry count incremented and stays unprocessed, every other
\* fetched event is handled and marked processed, and the returned count is
\* the number of events handled successfully.
C23_HandlerFailureIsIsolated ==
    [][ ( /\ outcome'.op = "drain"
          /\ ndeliv' = ndeliv + 1
          /\ outcome'.arg[2] # 0 )
        => LET limit == outcome'.arg[1]
               f == outcome'.arg[2]
           IN  /\ outcome'.ok
               /\ outbox'[f].retry = outbox[f].retry + 1
               /\ ~outbox'[f].processed
               /\ \A i \in OthersFetched(limit, f) : outbox'[i].processed
               /\ outcome'.arg[4] = Cardinality(OthersFetched(limit, f)) ]_vars

\* C24: delivering again an event the projector has already applied leaves
\* every read-model row as it was.
C24_RedeliveryChangesNothing ==
    [][ ( outcome'.op = "redeliver" /\ ndeliv' = ndeliv + 1 )
        => UNCHANGED <<orderViews, walletViews>> ]_vars

\* the part of an outbox row that is not a delivery field
OutboxEvents(ob) == [i \in 1..Len(ob) |->
                        [ob[i] EXCEPT !.processed = FALSE, !.retry = 0]]

\* C27: a drain cycle, or a redelivery, changes only the read models and the
\* delivery fields of the outbox: orders, wallets, wallet transactions, the
\* event log and the events in the outbox stay as they are.
C27_DrainTouchesReadSideOnly ==
    [][ ndeliv' = ndeliv + 1
        => /\ UNCHANGED <<orders, wallets, ledger, eventLog>>
           /\ OutboxEvents(outbox') = OutboxEvents(outbox) ]_vars

\* a cycle has handled events of a paid order while the read model of
\* another delivery was behind
C27_Witness ==
    /\ outcome.op = "drain"
    /\ outcome.ok
    /\ outcome.arg[4] >= 2
    /\ \E o \in OrderIds : orders[o].status = "PAID" /\ orderViews[o].exists
    /\ \E i \in 1..Len(outbox) : outbox[i].processed

\* C28: mark_processed and increment_retry are idempotent: applied twice to
\* an outbox event they leave its processed flag and retry count as applied
\* once.
C28_DeliveryUpdatesIdempotent ==
    \A i \in 1..Len(outbox) :
        /\ MarkProcessed(MarkProcessed(outbox, i), i) = MarkProcessed(outbox, i)
        /\ IncrementRetry(IncrementRetry(outbox, i), i) = IncrementRetry(outbox, i)

(***************************************************************************)
(* C30: the persisted wallet ledger is append-only.  Every step of         *)
(* createOrder, capturePayment, refundOrder, a drain cycle or a            *)
(* re-delivery leaves each committed wallet transaction in place with the  *)
(* same wallet, type, amount and order reference: the ledger before the    *)
(* step is a prefix of the ledger after it.                                *)
(***************************************************************************)
C30_LedgerAppendOnly ==
    [][/\ Len(ledger') >= Len(ledger)
       /\ SubSeq(ledger', 1, Len(ledger)) = ledger]_vars

\* a capture and a refund have appended their transactions to the deposit
\* and a drain cycle has applied their events
C30_Witness ==
    /\ Len(ledger) >= 5
    /\ ledger[1].kind = "deposit"
    /\ \E i \in 1..Len(ledger) : ledger[i].type = "DEBIT" /\ ledger[i].order # 0
    /\ ndeliv > 0
    /\ \E i \in 1..Len(outbox) : outbox[i].processed

(***************************************************************************)
(* Queries and createOrder next to the commands.                           *)
(* WalletService.get_balance is one SELECT of the customer, one of the     *)
(* wallet and one of the wallet's transactions; it takes no lock.  A       *)
(* command that is inside its with-block has inserted some of its rows but *)
(* has not committed them: k counts the wallet transactions it has         *)
(* inserted when the query's SELECT runs.                                  *)
(***************************************************************************)
MaxQueryRequests == 2

\* both customers, an order without items, a quantity of 0, a negative
\* price, an invalid item after a valid one, and an unknown customer
QueryCreateInputs ==
    ({"c1", "c2"} \X {ItemsOdd})
    \cup ({"c1"} \X {<< >>, ItemsBad, << Item(1, 0 - Money(30)) >>,
                     << Item(1, Money(30)), Item(0, Money(30)) >>})
    \cup {<<UnknownCustomer, ItemsOdd>>}

\* create_order called on its own: the outcome of the call is recorded
CreateOrderCall(c, items) ==
    /\ Len(orders) < MaxOrders
    /\ CreateOrderWrites(c, items)
    /\ outcome' = Call("create_order", CreateOrderAccepted(c, items), <<c, items>>)
    /\ UNCHANGED <<svcVars, memWallet, memOrder, readVars>>

\* the wallet transactions the command of p writes inside its with-block
InFlightTxns(p) ==
    LET total == TotalAmount(ord[p].items)
        bonus == BonusAmount(total)
    IN  IF pc[p] = "cap_crit"
        THEN CaptureTxns(wal[p], req[p].order, total, bonus, reqId[p])
        ELSE IF pc[p] = "ref_crit"
        THEN RefundTxns(wal[p], req[p].order, total, bonus,
                        CanCompensate(Balance(wal[p]) + total, bonus), reqId[p])
        ELSE << >>

\* the rows of the transaction that holds the lock of wallet w
InFlight(w) ==
    IF \E p \in Procs : InCritical(p, w)
    THEN InFlightTxns(CHOOSE p \in Procs : InCritical(p, w))
    ELSE << >>

\* the rows a command may have inserted for the wallet of customer c
InFlightOf(c) ==
    IF WalletOfCustomer(c) = {} THEN << >>
    ELSE InFlight((CHOOSE x \in WalletOfCustomer(c) : TRUE).id)

\* variant: the SELECT sees the rows another transaction has not committed
VisibleRowsDirty(w, k) == ledger \o SubSeq(InFlight(w), 1, k)

\* the rows a SELECT of another transaction sees: PostgreSQL shows a
\* statement the committed rows only, whatever k the writer has reached
VisibleRows(w, k) == ledger

\* WalletService.get_balance
GetBalance(c, k) ==
    /\ IF c \notin Customers
       THEN /\ k = 0
            /\ outcome' = Call("get_balance", FALSE, <<c, 0, 0, "NotFound">>)
       ELSE IF WalletOfCustomer(c) = {}
       \* customer.wallet: the reverse one-to-one accessor raises
       THEN /\ k = 0
            /\ outcome' = Call("get_balance", FALSE,
                               <<c, 0, 0, "RelatedObjectDoesNotExist">>)
       ELSE LET w == (CHOOSE x \in WalletOfCustomer(c) : TRUE).id
                rows == SelectWallet(VisibleRows(w, k), w)
            IN  /\ k \in 0..Len(InFlight(w))
                /\ outcome' = Call("get_balance", TRUE,
                                   <<c, k, CalculateWalletBalance(rows), "">>)
    /\ UNCHANGED <<dbVars, svcVars, memWallet, memOrder, readVars>>

NextQuery ==
    \/ \E in \in QueryCreateInputs : CreateOrderCall(in[1], in[2])
    \/ \E r \in CmdRequests : Start("p1", r, MaxQueryRequests)
    \/ Command("p1")
    \/ \E c \in Customers \cup {UnknownCustomer} :
          \E k \in 0..Len(InFlightOf(c)) : GetBalance(c, k)

SpecQuery == Init /\ [][NextQuery]_vars

\* the step is a call of op whose outcome differs from the one recorded before
Called(op) == outcome'.op = op /\ outcome' # outcome

RECURSIVE SumOfType(_, _)
SumOfType(rows, type) ==
    IF rows = << >> THEN 0
    ELSE (IF Head(rows).type = type THEN Head(rows).amount ELSE 0)
         + SumOfType(Tail(rows), type)

\* C25: GetBalance fails with NotFound when the customer does not exist,
\* returns balance 0 when the customer exists but has no wallet, and
\* otherwise returns the sum of the wallet's CREDIT transactions minus the
\* sum of its DEBIT transactions; it never changes any state.
C25_GetBalanceContract ==
    [][ Called("get_balance") =>
          LET c == outcome'.arg[1]
              ws == WalletOfCustomer(c)
          IN  /\ UNCHANGED <<dbVars, svcVars, readVars>>
              /\ c \notin Customers
                    => ~outcome'.ok /\ outcome'.arg[4] = "NotFound"
              /\ (c \in Customers /\ ws = {})
                    => outcome'.ok /\ outcome'.arg[3] = 0
              /\ (c \in Customers /\ ws # {})
                    => /\ outcome'.ok
                       /\ \A x \in ws :
                             outcome'.arg[3] =
                                 SumOfType(SelectWallet(ledger, x.id), "CREDIT")
                                 - SumOfType(SelectWallet(ledger, x.id), "DEBIT")
      ]_vars

\* C26: createOrder with an existing customer and valid items persists
\* exactly one new order in DRAFT and appends exactly one OrderCreated event
\* with sequence number 1 plus one outbox row; with an unknown customer or
\* any item having quantity <= 0 or price < 0 it fails and persists nothing.
C26_CreateOrderContract ==
    [][ Called("create_order") =>
          LET c == outcome'.arg[1]
              items == outcome'.arg[2]
              bad == \/ c \notin Customers
                     \/ \E i \in 1..Len(items) :
                           items[i].quantity <= 0 \/ items[i].price < 0
              o == Len(orders) + 1
          IN  /\ outcome'.ok = ~bad
              /\ bad => UNCHANGED dbVars
              /\ ~bad =>
                    /\ Len(orders') = o
                    /\ SubSeq(orders', 1, Len(orders)) = orders
                    /\ orders'[o].status = "DRAFT"
                    /\ orders'[o].customer = c
                    /\ Len(orders'[o].items) = Len(items)
                    /\ Len(eventLog') = Len(eventLog) + 1
                    /\ SubSeq(eventLog', 1, Len(eventLog)) = eventLog
                    /\ eventLog'[Len(eventLog')].etype = "OrderCreated"
                    /\ eventLog'[Len(eventLog')].aggType = "Order"
                    /\ eventLog'[Len(eventLog')].aggId = o
                    /\ eventLog'[Len(eventLog')].seq = 1
                    /\ Len(outbox') = Len(outbox) + 1
                    /\ SubSeq(outbox', 1, Len(outbox)) = outbox
                    /\ outbox'[Len(outbox')].etype = "OrderCreated"
                    /\ outbox'[Len(outbox')].aggId = o
                    /\ UNCHANGED <<wallets, ledger>>
      ]_vars

\* a call that succeeded has created the second order, its first event and
\* its DRAFT row
C26_Witness ==
    /\ outcome.op = "create_order"
    /\ outcome.ok
    /\ Len(orders) = 2
    /\ orders[2].status = "DRAFT"
    /\ \E i \in 1..Len(eventLog) :
          eventLog[i].etype = "OrderCreated" /\ eventLog[i].aggId = 2
                                              /\ eventLog[i].seq = 1

\* C29: a GetBalance that runs while a capturePayment or refundOrder holds
\* the lock of the same wallet returns the balance of the committed ledger,
\* which is the balance before that command, and the command's transactions
\* enter the committed ledger all in one step: no read sees the payment
\* debit without the bonus credit.
C29_NoPartialBalance ==
    [][ /\ ( Called("get_balance") /\ outcome'.ok )
           => \A x \in WalletOfCustomer(outcome'.arg[1]) :
                 outcome'.arg[3] = Balance(x.id)
        /\ ledger' # ledger
           => \E p \in Procs :
                 /\ InCritical(p, wal[p])
                 /\ InFlightTxns(p) # << >>
                 /\ ledger' = ledger \o InFlightTxns(p)
      ]_vars

\* a read ran while a capture had inserted its payment debit but not yet
\* its bonus credit, and the capture is one that commits
C29_Witness ==
    /\ outcome.op = "get_balance"
    /\ outcome.ok
    /\ outcome.arg[2] = 1
    /\ outcome.arg[3] = Balance("w1")
    /\ pc["p1"] = "cap_crit"
    /\ wal["p1"] = "w1"
    /\ ord["p1"].status = "PENDING"
    /\ ~InsufficientBalance(Balance("w1"), TotalAmount(ord["p1"].items))

\* the unprocessed events of ob that are older than event i
OlderUnprocessed(ob, i) == { j \in 1..(i - 1) : ~ob[j].processed }

\* C31: an outbox event is marked processed only by a drain cycle that
\* fetched it, ran its handler without error and committed; the event whose
\* handler failed stays unprocessed and is within the events the next cycle
\* with the same limit fetches.
C31_ProcessedOnlyAfterHandling ==
    [][ /\ \A i \in 1..Len(outbox') :
              ( outbox'[i].processed /\ (i > Len(outbox) \/ ~outbox[i].processed) )
              => /\ i <= Len(outbox)
                 /\ outcome'.op = "drain"
                 /\ ndeliv' = ndeliv + 1
                 /\ outcome'.ok
                 /\ i # outcome'.arg[2]
                 /\ Cardinality(OlderUnprocessed(outbox, i)) < outcome'.arg[1]
                 /\ outbox[i].etype = "OrderCreated"
                       => orderViews'[outbox[i].aggId].exists
        /\ ( outcome'.op = "drain" /\ ndeliv' = ndeliv + 1 /\ outcome'.arg[2] # 0 )
           => LET f == outcome'.arg[2]
              IN  /\ ~outbox'[f].processed
                  /\ Cardinality(OlderUnprocessed(outbox', f)) < outcome'.arg[1]
      ]_vars

\* a cycle has committed in which the handler of one event failed: that
\* event is unprocessed with a retry counted, another event is processed
C31_Witness ==
    /\ outcome.op = "drain"
    /\ outcome.ok
    /\ outcome.arg[2] # 0
    /\ ~outbox[outcome.arg[2]].processed
    /\ outbox[outcome.arg[2]].retry > 0
    /\ \E i \in 1..Len(outbox) : outbox[i].processed

(***************************************************************************)
(* The projector in loop mode: process_outbox --loop runs a drain cycle,   *)
(* sleeps for the interval and runs the next one, next to the commands.    *)
(* The loop catches KeyboardInterrupt only: it ends when the user          *)
(* interrupts it, and it ends with the first exception that leaves         *)
(* process_outbox_events, which is the cycle that is rolled back.  A       *)
(* handler that raises without breaking the transaction is caught inside   *)
(* the cycle and the loop goes on; it can fail MaxRetries times per event  *)
(* here (each failure adds to the event's retry count).                    *)
(***************************************************************************)
MaxRetries == 2

\* the command is started with --loop
StartLoop ==
    /\ worker = "off"
    /\ worker' = "looping"
    /\ UNCHANGED <<dbVars, svcVars, aggVars, orderViews, walletViews, ndeliv>>

\* one turn of the while loop; the exception of a rolled-back cycle is not
\* caught by the loop and ends the command
DrainCycle(limit, f, kind) ==
    /\ worker = "looping"
    /\ \A p \in Procs : Free(p)
    /\ f \in 0..Len(outbox)
    /\ (f # 0 /\ ~BreaksTransaction(outbox[f], kind))
          => outbox[f].retry < MaxRetries
    /\ DrainEffect(limit, f, kind)
    /\ worker' = IF f # 0 /\ BreaksTransaction(outbox[f], kind)
                 THEN "failed"
                 ELSE "looping"
    /\ UNCHANGED <<svcVars, memWallet, memOrder, ndeliv>>

DrainStep ==
    \E limit \in Limits, f \in 0..Len(outbox), kind \in FailureKinds :
       DrainCycle(limit, f, kind)

\* KeyboardInterrupt, during the sleep or during a cycle (whose transaction
\* is then rolled back): "Stopped by user", the loop is left
Interrupt ==
    /\ worker = "looping"
    /\ worker' = "stopped"
    /\ UNCHANGED <<dbVars, svcVars, aggVars, orderViews, walletViews, ndeliv>>

NextDrain ==
    \/ \E in \in ProjCreateInputs :
          orders = << >> /\ CreateOrder(in[1], in[2])
    \/ \E r \in CmdRequests : Start("p1", r, MaxProjRequests)
    \/ Command("p1")
    \/ StartLoop
    \/ DrainStep
    \/ Interrupt

\* while the loop runs it keeps running cycles, and a command that was
\* called runs to its end; nothing makes the user start the loop or keeps
\* them from interrupting it
SpecDrain ==
    Init /\ [][NextDrain]_vars /\ WF_vars(DrainStep) /\ WF_vars(Command("p1"))

AllProcessed == \A i \in 1..Len(outbox) : outbox[i].processed

\* C36: once every outbox event has been marked processed, the status of
\* each OrderSummary row is the persisted status of its order.
C36_SummaryStatusConverges ==
    AllProcessed
    => \A o \in 1..Len(orders) :
          orderViews[o].exists => orderViews[o].status = orders[o].status

\* C37: once every outbox event has been marked processed, the balance of
\* each WalletView row is the balance replayed from the wallet's ledger.
C37_WalletViewConverges ==
    AllProcessed
    => \A w \in WalletIds :
          walletViews[w].exists => walletViews[w].balance = Balance(w)

\* C38: under repeated drain cycles every outbox event is eventually marked
\* processed unless its own handler keeps failing: once the loop has been
\* started and as long as nobody interrupts it, an event that stays
\* unprocessed for ever is the failing event of infinitely many cycles.
C38_NoStarvation ==
    \A i \in 1..(1 + 5 * MaxProjRequests) :
       ( /\ <>(worker = "looping")
         /\ [](worker # "stopped")
         /\ <>[](i <= Len(outbox) /\ ~outbox[i].processed) )
       => []<>(outcome.op = "drain" /\ outcome.arg[2] = i)

\* C35: every successful refund adds exactly two wallet transactions, one
\* CREDIT of the order total followed by one DEBIT of the bonus, 5% of the
\* total: the compensation is never skipped.
C35_RefundAlwaysCompensates ==
    [][ \A p \in Procs :
          ( pc[p] = "ref_crit" /\ resp'[p].kind = "refundOrder" )
          => LET T == orders[req[p].order].total
                 n == Len(ledger)
             IN  /\ Len(ledger') = n + 2
                 /\ SubSeq(ledger', 1, n) = ledger
                 /\ ledger'[n + 1].type = "CREDIT"
                 /\ ledger'[n + 1].amount = T
                 /\ ledger'[n + 2].type = "DEBIT"
                 /\ ledger'[n + 2].amount = BonusAmount(T) ]_vars

\* C39: no command that holds a wallet lock waits for anything else, so no
\* two commands ever wait for each other: there is no state in which one
\* holds the wallet lock and waits for an order row written by the other
\* while the other waits for that wallet lock.
C39_NoDeadlock ==
    \A p, q \in Procs :
       ~( /\ WaitsForLock(q, p)
          /\ WaitsForRow(p, q) )

OrderLifecycle == << "OrderCreated", "OrderConfirmed", "OrderPaid", "OrderRefunded" >>
LifecycleStatus == << "DRAFT", "PENDING", "PAID", "REFUNDED" >>

\* C33: in every committed state the events of each order, in sequence
\* order, are a prefix of OrderCreated, OrderConfirmed, OrderPaid,
\* OrderRefunded, and the last of them corresponds to the stored status.
C33_EventsFollowLifecycle ==
    \A o \in 1..Len(orders) :
       LET n == Cardinality({ i \in 1..Len(eventLog) :
                                 eventLog[i].aggType = "Order" /\ eventLog[i].aggId = o })
       IN  /\ n \in 1..Len(OrderLifecycle)
           /\ \A k \in 1..n :
                 \E i \in 1..Len(eventLog) :
                    /\ eventLog[i].aggType = "Order"
                    /\ eventLog[i].aggId = o
                    /\ eventLog[i].seq = k
                    /\ eventLog[i].etype = OrderLifecycle[k]
           /\ orders[o].status = LifecycleStatus[n]

(***************************************************************************)
(* capturePayment on orders of every kind: orders of a customer with and   *)
(* without a wallet, an order whose only item is priced 0, an order        *)
(* without items, and an order that was cancelled and saved through        *)
(* OrderRepository.save (no command cancels an order).                     *)
(***************************************************************************)
MaxCaptureRequests == 3

CaptureCreateInputs ==
    ({"c1", "c2"} \X {ItemsOdd, << Item(1, 0) >>}) \cup {<<"c1", << >> >>}

NextCapture ==
    \/ \E in \in CaptureCreateInputs : CreateOrderCall(in[1], in[2])
    \/ Cancel
    \/ Len(orders) < MaxOrders /\ memOrder.saved = 0 /\ SaveOrder
    \/ \E r \in CmdRequests : Start("p1", r, MaxCaptureRequests)
    \/ Command("p1")

SpecCapture == Init /\ [][NextCapture]_vars

\* the ValueErrors of the status check of capture_payment and of Order.confirm
InvalidStateErrors == {"InvalidState", "EmptyOrder"}

\* an order capture_payment must refuse for its state
NotCapturable(od) ==
    \/ od.status \in {"PAID", "REFUNDED", "CANCELLED"}
    \/ od.status = "DRAFT" /\ od.items = << >>

\* C32: capturePayment on an order that is PAID, REFUNDED or CANCELLED, or
\* on a DRAFT order with no items, fails with InvalidState before it has
\* written anything: orders, ledger, event log and outbox are unchanged.
C32_CaptureRefusedByState ==
    [][ \A p \in Procs :
          ( /\ pc[p] = "cap_confirm"
            /\ pc'[p] # "cap_confirm"
            /\ NotCapturable(orders[req[p].order]) )
          => /\ resp'[p].kind = "errors"
             /\ resp'[p].err \in InvalidStateErrors
             /\ buf[p] = EmptyBuf
             /\ lock = [w \in WalletIds |-> NoProc]
             /\ UNCHANGED dbVars ]_vars

\* a capture of an order that had been paid and refunded was refused
C32_Witness ==
    /\ pc["p1"] = "done"
    /\ req["p1"].op = "capturePayment"
    /\ req["p1"].order \in 1..Len(orders)
    /\ orders[req["p1"].order].status = "REFUNDED"
    /\ resp["p1"].kind = "errors"
    /\ resp["p1"].err = "InvalidState"

\* C34: a capturePayment for a customer who has no wallet commits nothing.
\* The call ends in an error with the store unchanged (inside the lock the
\* error is the rejected debit), and no committed state holds a wallet or a
\* WalletCreated event that a capture produced.
C34_NoWalletCaptureCommitsNothing ==
    [][ /\ \A p \in Procs :
              ( /\ Ends(p)
                /\ req[p].op = "capturePayment"
                /\ req[p].order \in OrderIds
                /\ WalletOfCustomer(orders[req[p].order].customer) = {} )
              => /\ resp'[p].kind = "errors"
                 /\ pc[p] = "cap_crit"
                       => resp'[p].err \in {"InsufficientBalance", "InvalidAmount"}
                 /\ UNCHANGED dbVars
        /\ wallets' = wallets
        /\ \A i \in 1..Len(eventLog') : eventLog'[i].etype # "WalletCreated"
        /\ \A i \in 1..Len(outbox') : outbox'[i].etype # "WalletCreated"
      ]_vars

\* the capture of an order of 0.30 of the customer without wallet has created
\* a wallet, was refused the debit and has ended
C34_Witness ==
    /\ pc["p1"] = "done"
    /\ req["p1"].op = "capturePayment"
    /\ req["p1"].order \in 1..Len(orders)
    /\ orders[req["p1"].order].customer = "c2"
    /\ orders[req["p1"].order].total > 0
    /\ orders[req["p1"].order].status = "DRAFT"
    /\ resp["p1"].err = "InsufficientBalance"
    /\ WalletOfCustomer("c2") = {}

\* C40: an order whose total is 0 never becomes PAID: every capturePayment
\* on it ends in an error and leaves the order with the status it had.
C40_ZeroTotalNeverPaid ==
    [][ /\ \A p \in Procs :
              ( /\ Ends(p)
                /\ req[p].op = "capturePayment"
                /\ req[p].order \in OrderIds
                /\ orders[req[p].order].total = 0 )
              => /\ resp'[p].kind = "errors"
                 /\ UNCHANGED dbVars
        /\ \A o \in 1..Len(orders') :
              orders'[o].total = 0 => orders'[o].status # "PAID"
      ]_vars

\* the capture of an order with one item priced 0, of the customer whose
\* wallet holds money, was refused the debit of 0
C40_Witness ==
    /\ pc["p1"] = "done"
    /\ req["p1"].op = "capturePayment"
    /\ req["p1"].order \in 1..Len(orders)
    /\ orders[req["p1"].order].customer = "c1"
    /\ orders[req["p1"].order].items # << >>
    /\ orders[req["p1"].order].total = 0
    /\ orders[req["p1"].order].status = "DRAFT"
    /\ resp["p1"].err = "InvalidAmount"
    /\ Balance("w1") > 0

====
